---- MODULE Spec2Model ----
(***************************************************************************)
(* State-machine model of CwwLedController (LED controller, LED sequence  *)
(* and sequence player), translated from src/CwwLedController.cpp/.h.     *)
(***************************************************************************)
EXTENDS Integers, Sequences, FiniteSets, TLC

\* ------------------------------------------------------------------------
\* Bounds of the model
\* ------------------------------------------------------------------------
TimeMod == 4        \* the millisecond counter counts modulo TimeMod
MaxPhase == 3       \* largest phaseCount argument tried
MaxUpd == 4         \* history counters stop counting here
MaxSteps == 2       \* longest sequence built with addStep
MaxIter == 5        \* updateNow plays a step only while currentIteration < MaxIter
MaxFed == MaxSteps * (MaxIter + 1)   \* the history lists at most this many step modes

\* ------------------------------------------------------------------------
\* Private macros and the mode enumeration
\* ------------------------------------------------------------------------
LEVEL_FP_BITS == 8
FpOne == 2 ^ LEVEL_FP_BITS
LEVEL_VALUE_ABS_MIN == 0 * FpOne
LEVEL_VALUE_ABS_MAX == 255 * FpOne
\* 255 << LEVEL_FP_BITS-1 : the subtraction binds tighter than the shift
LEVEL_VALUE_ABS_MID == 255 * (2 ^ (LEVEL_FP_BITS - 1))

LED_OFF == "LED_OFF"
LED_ON == "LED_ON"
LED_LOW == "LED_LOW"
LED_HIGH == "LED_HIGH"
LED_TOGGLE == "LED_TOGGLE"
LED_TOGGLE_MAX == "LED_TOGGLE_MAX"
LED_TOGGLE_LEVEL == "LED_TOGGLE_LEVEL"
LED_BLINK == "LED_BLINK"
LED_BLINK_MAX == "LED_BLINK_MAX"
LED_BLINK_LEVEL == "LED_BLINK_LEVEL"
LED_STEP_DOWN == "LED_STEP_DOWN"
LED_STEP_UP == "LED_STEP_UP"
LED_FADE_DOWN == "LED_FADE_DOWN"
LED_FADE_UP == "LED_FADE_UP"
LED_FADE_REVERSE == "LED_FADE_REVERSE"
LED_OSCILLATE == "LED_OSCILLATE"
LED_HOLD_LEVEL == "LED_HOLD_LEVEL"

cwwEnumLedMode ==
  { LED_OFF, LED_ON, LED_LOW, LED_HIGH, LED_TOGGLE, LED_TOGGLE_MAX,
    LED_TOGGLE_LEVEL, LED_BLINK, LED_BLINK_MAX, LED_BLINK_LEVEL,
    LED_STEP_DOWN, LED_STEP_UP, LED_FADE_DOWN, LED_FADE_UP,
    LED_FADE_REVERSE, LED_OSCILLATE, LED_HOLD_LEVEL }

\* ------------------------------------------------------------------------
\* Fixed-width integer helpers
\* ------------------------------------------------------------------------
U8(x) == x % 256
U16(x) == x % 65536
ULONG_MAX == TimeMod - 1
ULong(x) == x % TimeMod

\* ------------------------------------------------------------------------
\* Input sets
\* ------------------------------------------------------------------------
LevelArgs == {0, 160, 255}
StepArgs == {0, 64}
PeriodArgs == {1, 2, 4}
RefreshArgs == {0, 1, 2}
PhaseArgs == 0..MaxPhase
\* what an uninitialized uint16_t member may hold
GarbageU16 == {0, 65535}
\* the ranges configured with setLevelRange
RangeArgs == {<<128, 192>>}
\* the argument pairs the setLevelRange call is tried with: valid, reversed
\* and degenerate ones
RangeCallArgs == {<<128, 192>>, <<192, 128>>, <<0, 0>>, <<200, 200>>, <<0, 255>>}

\* the periods the constructor and the period setters are examined with
PeriodProbeArgs == {0, 1, 2, 3, 4}
\* the refresh intervals setRefreshInterval is examined with
RefreshProbeArgs == {0, 1, 2, 20, 65535}

SetModeArgs == {LED_FADE_REVERSE, LED_STEP_UP, LED_STEP_DOWN}
\* the steps added with addStep: <<timeToStepMs, modeOfStep>>
StepArgsOfSequence == {<<1, LED_ON>>, <<2, LED_OFF>>}
SeqRepeatArgs == {0, 2}
PlayerRepeatArgs == {2}

\* led: the CwwLedController object (with the last write to its pin);
\* player: the object behind sequencePlayerPtr; seq: the CwwLedSequence
\* object of the user code; now: the millisecond counter;
\* hist: history of the calls made (not program state)
VARIABLES led, player, seq, now, hist

vars == <<led, player, seq, now, hist>>

\* millis()
millis == now

\* ------------------------------------------------------------------------
\* CwwLedController private functions; c is the controller object
\* ------------------------------------------------------------------------
calcLevelStep(c) ==
  LET levelRange == c.levelMax - c.levelMin
      oscillatePhase == c.oscillatePeriod \div 2
      steps0 == (oscillatePhase \div c.refreshInterval)
                  + (IF oscillatePhase % c.refreshInterval > 0 THEN 1 ELSE 0)
      stepsPerOscillatePhase == IF steps0 > 0 THEN steps0 ELSE 1
      step0 == U16(levelRange \div stepsPerOscillatePhase)
  IN [c EXCEPT !.levelStep = IF step0 = 0 THEN 1 ELSE step0]

decrementLevel(c, delta) ==
  LET ledLevelNew == c.ledLevel - delta
  IN [c EXCEPT !.ledLevel = IF ledLevelNew < c.levelMin THEN c.levelMin ELSE ledLevelNew]

\* a variant of incrementLevel without the limit at levelMax
incrementLevelUnlimited(c, delta) == [c EXCEPT !.ledLevel = c.ledLevel + delta]

incrementLevel(c, delta) ==
  LET ledLevelNew == c.ledLevel + delta
  IN [c EXCEPT !.ledLevel = IF ledLevelNew > c.levelMax THEN c.levelMax ELSE ledLevelNew]

calcLevelMid(c) ==
  [c EXCEPT !.levelMid = c.levelMin + ((c.levelMax - c.levelMin) \div 2)]

levelIsNearMax(c) == c.ledLevel > LEVEL_VALUE_ABS_MID

levelIsNearAbsMax(c) == c.ledLevel > c.levelMid

\* the write drivePin makes for the current level
PinWrite(c) ==
  LET ledLevelEff == U8((IF c.invertSignal THEN LEVEL_VALUE_ABS_MAX - c.ledLevel
                                           ELSE c.ledLevel) \div FpOne)
  IN IF ledLevelEff = 0 THEN [fn |-> "digitalWrite", val |-> 0]
     ELSE IF c.usePwm THEN [fn |-> "analogWrite", val |-> ledLevelEff]
     ELSE [fn |-> "digitalWrite", val |-> 1]

drivePin(c, markDriveTime) ==
  [c EXCEPT !.pin = PinWrite(c),
            !.lastDriveTime = IF markDriveTime THEN millis ELSE @]

\* a variant of adjustMode without the translation of the PWM-specific modes
adjustModeUntranslated(c, ledModeNew) ==
  IF ledModeNew = LED_TOGGLE
  THEN IF c.ledModeActive \in {LED_OFF, LED_ON, LED_BLINK_MAX}
       THEN LED_TOGGLE_MAX ELSE LED_TOGGLE_LEVEL
  ELSE IF ledModeNew = LED_BLINK
  THEN IF c.ledModeActive \in {LED_BLINK_MAX, LED_BLINK_LEVEL}
       THEN c.ledModeActive
       ELSE IF c.ledModeActive \in {LED_OFF, LED_ON}
            THEN LED_BLINK_MAX ELSE LED_BLINK_LEVEL
  ELSE ledModeNew

\* a variant of adjustMode that resolves the generic modes by the PWM
\* capability instead of the active mode
adjustModeGenericByPwm(c, ledModeNew) ==
  IF ledModeNew = LED_TOGGLE
  THEN IF c.usePwm THEN LED_TOGGLE_LEVEL ELSE LED_TOGGLE_MAX
  ELSE IF ledModeNew = LED_BLINK
  THEN IF c.usePwm THEN LED_BLINK_LEVEL ELSE LED_BLINK_MAX
  ELSE adjustModeUntranslated(c, ledModeNew)

\* a variant of adjustMode that also translates LED_TOGGLE_LEVEL without PWM
adjustModeToggleLevelTranslated(c, ledModeNew) ==
  IF ~c.usePwm /\ ledModeNew = LED_TOGGLE_LEVEL THEN LED_TOGGLE_MAX
  ELSE IF ~c.usePwm /\ ledModeNew \in {LED_HIGH, LED_STEP_UP, LED_FADE_UP} THEN LED_ON
  ELSE IF ~c.usePwm /\ ledModeNew \in {LED_LOW, LED_STEP_DOWN, LED_FADE_DOWN} THEN LED_OFF
  ELSE IF ~c.usePwm /\ ledModeNew = LED_FADE_REVERSE THEN LED_TOGGLE_MAX
  ELSE IF ~c.usePwm /\ ledModeNew \in {LED_BLINK_LEVEL, LED_OSCILLATE} THEN LED_BLINK_MAX
  ELSE IF ~c.usePwm /\ ledModeNew = LED_HOLD_LEVEL THEN c.ledModeActive
  ELSE adjustModeUntranslated(c, ledModeNew)

adjustMode(c, ledModeNew) ==
  LET a1 == IF ~c.usePwm
            THEN CASE ledModeNew \in {LED_HIGH, LED_STEP_UP, LED_FADE_UP} -> LED_ON
                   [] ledModeNew \in {LED_LOW, LED_STEP_DOWN, LED_FADE_DOWN} -> LED_OFF
                   [] ledModeNew = LED_FADE_REVERSE -> LED_TOGGLE_MAX
                   [] ledModeNew \in {LED_BLINK_LEVEL, LED_OSCILLATE} -> LED_BLINK_MAX
                   [] ledModeNew = LED_HOLD_LEVEL -> c.ledModeActive
                   [] OTHER -> ledModeNew
            ELSE ledModeNew
      a2 == IF ledModeNew = LED_TOGGLE
            THEN IF c.ledModeActive \in {LED_OFF, LED_ON, LED_BLINK_MAX}
                 THEN LED_TOGGLE_MAX ELSE LED_TOGGLE_LEVEL
            ELSE a1
      a3 == IF ledModeNew = LED_BLINK
            THEN IF c.ledModeActive \in {LED_BLINK_MAX, LED_BLINK_LEVEL}
                 THEN c.ledModeActive
                 ELSE IF c.ledModeActive \in {LED_OFF, LED_ON}
                      THEN LED_BLINK_MAX ELSE LED_BLINK_LEVEL
            ELSE a2
  IN a3

\* case LED_LOW of computeState (also the tail of case LED_OFF, which has no break)
caseLow(c) ==
  [c EXCEPT !.ledDirIsUp = FALSE, !.ledLevel = c.levelMin,
            !.ledModeActive = LED_LOW, !.updateInterval = 0]

caseOff(c) ==
  caseLow([c EXCEPT !.ledDirIsUp = FALSE, !.ledLevel = LEVEL_VALUE_ABS_MIN,
                    !.ledModeActive = LED_OFF, !.updateInterval = 0])

caseOn(c) ==
  [c EXCEPT !.ledDirIsUp = TRUE, !.ledLevel = LEVEL_VALUE_ABS_MAX,
            !.ledModeActive = LED_ON, !.updateInterval = 0]

caseHigh(c) ==
  [c EXCEPT !.ledDirIsUp = TRUE, !.ledLevel = c.levelMax,
            !.ledModeActive = LED_HIGH, !.updateInterval = 0]

\* a variant of case LED_TOGGLE_MAX that records the generic mode as active
caseToggleMaxAsToggle(c) ==
  LET up == ~levelIsNearMax(c)
  IN [c EXCEPT !.ledDirIsUp = up,
               !.ledLevel = IF up THEN LEVEL_VALUE_ABS_MAX ELSE LEVEL_VALUE_ABS_MIN,
               !.ledModeActive = LED_TOGGLE,
               !.updateInterval = 0]

caseToggleMax(c) ==
  LET up == ~levelIsNearMax(c)
  IN [c EXCEPT !.ledDirIsUp = up,
               !.ledLevel = IF up THEN LEVEL_VALUE_ABS_MAX ELSE LEVEL_VALUE_ABS_MIN,
               !.ledModeActive = IF up THEN LED_ON ELSE LED_OFF,
               !.updateInterval = 0]

caseToggleLevel(c) ==
  LET up == ~levelIsNearAbsMax(c)
  IN [c EXCEPT !.ledDirIsUp = up,
               !.ledLevel = IF up THEN c.levelMax ELSE c.levelMin,
               !.ledModeActive = IF up THEN LED_HIGH ELSE LED_LOW,
               !.updateInterval = 0]

\* a variant of the phase bookkeeping that never counts a phase down
blinkPhasesUncounted(c, phaseCount, blinkMode, modeUp, modeDown) ==
  [c EXCEPT !.remainingPhases = IF phaseCount > 0 THEN phaseCount ELSE @,
            !.ledModeActive = blinkMode,
            !.updateInterval = c.blinkPeriod \div 2]

\* the phase bookkeeping shared by both blink cases
blinkPhases(c, phaseCount, blinkMode, modeUp, modeDown) ==
  LET seeded == IF phaseCount > 0 THEN phaseCount ELSE c.remainingPhases
      left == IF seeded > 0 THEN seeded - 1 ELSE seeded
      settle == seeded > 0 /\ left = 0
  IN [c EXCEPT !.remainingPhases = left,
               !.ledModeActive = IF settle
                                 THEN (IF c.ledDirIsUp THEN modeUp ELSE modeDown)
                                 ELSE blinkMode,
               !.updateInterval = IF settle THEN 0 ELSE c.blinkPeriod \div 2]

caseBlinkMax(c, phaseCount) ==
  LET up == ~levelIsNearMax(c)
      c1 == [c EXCEPT !.ledDirIsUp = up,
                      !.ledLevel = IF up THEN LEVEL_VALUE_ABS_MAX ELSE LEVEL_VALUE_ABS_MIN]
  IN blinkPhases(c1, phaseCount, LED_BLINK_MAX, LED_ON, LED_OFF)

caseBlinkLevel(c, phaseCount) ==
  LET up == ~levelIsNearAbsMax(c)
      c1 == [c EXCEPT !.ledDirIsUp = up,
                      !.ledLevel = IF up THEN c.levelMax ELSE c.levelMin]
  IN blinkPhases(c1, phaseCount, LED_BLINK_LEVEL, LED_HIGH, LED_LOW)

caseStepDown(c, stepAmount) ==
  LET c1 == decrementLevel([c EXCEPT !.ledDirIsUp = FALSE], stepAmount)
  IN [c1 EXCEPT !.ledModeActive = IF c1.ledLevel = c1.levelMin THEN LED_LOW ELSE LED_HOLD_LEVEL,
                !.updateInterval = 0]

caseStepUp(c, stepAmount) ==
  LET c1 == incrementLevel([c EXCEPT !.ledDirIsUp = TRUE], stepAmount)
  IN [c1 EXCEPT !.ledModeActive = IF c1.ledLevel = c1.levelMax THEN LED_HIGH ELSE LED_HOLD_LEVEL,
                !.updateInterval = 0]

caseFade(c, ledModeNew) ==
  LET up == CASE ledModeNew = LED_FADE_DOWN -> FALSE
              [] ledModeNew = LED_FADE_UP -> TRUE
              [] OTHER -> ~c.ledDirIsUp
      c1 == [c EXCEPT !.ledDirIsUp = up]
      c2 == IF up THEN incrementLevel(c1, c1.levelStep) ELSE decrementLevel(c1, c1.levelStep)
      atEnd == IF up THEN c2.ledLevel = c2.levelMax ELSE c2.ledLevel = c2.levelMin
  IN [c2 EXCEPT !.ledModeActive = IF up THEN (IF atEnd THEN LED_HIGH ELSE LED_FADE_UP)
                                        ELSE (IF atEnd THEN LED_LOW ELSE LED_FADE_DOWN),
                !.updateInterval = IF atEnd THEN 0 ELSE c.refreshInterval]

caseOscillate(c, phaseCount) ==
  LET up == IF c.ledLevel = c.levelMin \/ c.ledLevel = c.levelMax
            THEN ~c.ledDirIsUp ELSE c.ledDirIsUp
      c1 == [c EXCEPT !.ledDirIsUp = up]
      c2 == IF up THEN incrementLevel(c1, c1.levelStep) ELSE decrementLevel(c1, c1.levelStep)
      seeded == IF phaseCount > 0 THEN phaseCount ELSE c.remainingPhases
      atEnd == c2.ledLevel = c2.levelMin \/ c2.ledLevel = c2.levelMax
      counted == seeded > 0 /\ atEnd
      left == IF counted THEN seeded - 1 ELSE seeded
      settle == counted /\ left = 0
  IN [c2 EXCEPT !.remainingPhases = left,
                !.ledModeActive = IF settle THEN (IF up THEN LED_HIGH ELSE LED_LOW)
                                            ELSE LED_OSCILLATE,
                !.updateInterval = IF settle THEN 0 ELSE c.refreshInterval]

caseHoldLevel(c) ==
  [c EXCEPT !.ledModeActive = LED_HOLD_LEVEL, !.updateInterval = 0]

computeState(c, ledModeNew, phaseCount, stepAmount0) ==
  LET stepAmount == IF stepAmount0 = 0 THEN c.levelStep ELSE stepAmount0
      c0 == [c EXCEPT !.ledModeSetting = ledModeNew]
  IN CASE ledModeNew = LED_OFF -> caseOff(c0)
       [] ledModeNew = LED_LOW -> caseLow(c0)
       [] ledModeNew = LED_ON -> caseOn(c0)
       [] ledModeNew = LED_HIGH -> caseHigh(c0)
       [] ledModeNew = LED_TOGGLE_MAX -> caseToggleMax(c0)
       [] ledModeNew = LED_TOGGLE_LEVEL -> caseToggleLevel(c0)
       [] ledModeNew = LED_BLINK_MAX -> caseBlinkMax(c0, phaseCount)
       [] ledModeNew = LED_BLINK_LEVEL -> caseBlinkLevel(c0, phaseCount)
       [] ledModeNew = LED_STEP_DOWN -> caseStepDown(c0, stepAmount)
       [] ledModeNew = LED_STEP_UP -> caseStepUp(c0, stepAmount)
       [] ledModeNew \in {LED_FADE_DOWN, LED_FADE_UP, LED_FADE_REVERSE} -> caseFade(c0, ledModeNew)
       [] ledModeNew = LED_OSCILLATE -> caseOscillate(c0, phaseCount)
       [] ledModeNew = LED_HOLD_LEVEL -> caseHoldLevel(c0)
       [] OTHER -> c0

\* the private four-argument setMode
setMode4(c, ledModeNew, phaseCount, stepAmount, forceSet) ==
  LET ledModeSpec == adjustMode(c, ledModeNew)
  IN IF ledModeSpec # c.ledModeSetting \/ forceSet
     THEN drivePin(computeState(c, ledModeSpec, phaseCount, stepAmount), TRUE)
     ELSE c

\* ------------------------------------------------------------------------
\* CwwElapseTimer (delayToStepTimer): a start time, a delay and a running flag
\* ------------------------------------------------------------------------
timerIdle == [running |-> FALSE, startTime |-> 0, delay |-> 0]

timerStart(t, delayMs) == [running |-> TRUE, startTime |-> millis, delay |-> delayMs]

timerStop(t) == [t EXCEPT !.running = FALSE]

timerIsRunning(t) == t.running

timerHasElapsed(t) == ULong(millis - t.startTime + TimeMod) >= t.delay

\* ------------------------------------------------------------------------
\* CwwLedSequence: q is the sequence object; a step pointer is an index
\* into q.steps, NULL is 0
\* ------------------------------------------------------------------------
NULL == 0

newSequence == [steps |-> <<>>, repeatCount |-> 1, attachCount |-> 0]

startOfSequencePtr(q) == IF q.steps = <<>> THEN NULL ELSE 1

nextStepPtr(q, p) == IF p < Len(q.steps) THEN p + 1 ELSE NULL

addStep(q, timeToStepMs, modeOfStep) ==
  [q EXCEPT !.steps = Append(@, [timeToStepMs |-> timeToStepMs, modeOfStep |-> modeOfStep])]

discardAll(q, forceDiscard) ==
  IF q.attachCount = 0 \/ forceDiscard
  THEN [q EXCEPT !.steps = <<>>, !.repeatCount = 1]
  ELSE q

attachPlayer(q) == [q EXCEPT !.attachCount = U8(@ + 1)]

detachPlayer(q) == [q EXCEPT !.attachCount = IF @ > 0 THEN @ - 1 ELSE @]

\* ------------------------------------------------------------------------
\* CwwLedSequencePlayer: p is the player object
\* ------------------------------------------------------------------------
newPlayer ==
  [allocated |-> TRUE, attached |-> FALSE, currentStepPtr |-> NULL,
   delayToStepTimer |-> timerIdle, iterationsToPlay |-> 1, currentIteration |-> 0]

\* sequencePlayerPtr == NULL
noPlayer == [newPlayer EXCEPT !.allocated = FALSE]

startFirstStep(p, q) ==
  IF startOfSequencePtr(q) # NULL
  THEN [p EXCEPT !.currentStepPtr = startOfSequencePtr(q),
                 !.currentIteration = 1,
                 !.delayToStepTimer = timerStart(@, q.steps[startOfSequencePtr(q)].timeToStepMs)]
  ELSE p

playerStop(p) == [p EXCEPT !.delayToStepTimer = timerStop(@)]

\* a variant of advanceOneStep that plays one pass only: at the end of the
\* sequence it always stops
advanceOneStepOnePass(p, q) ==
  IF startOfSequencePtr(q) = NULL THEN p
  ELSE IF nextStepPtr(q, p.currentStepPtr) # NULL
  THEN LET n == nextStepPtr(q, p.currentStepPtr)
       IN [p EXCEPT !.currentStepPtr = n,
                    !.delayToStepTimer = timerStart(@, q.steps[n].timeToStepMs)]
  ELSE playerStop(p)

advanceOneStep(p, q) ==
  IF startOfSequencePtr(q) = NULL THEN p
  ELSE IF nextStepPtr(q, p.currentStepPtr) # NULL
  THEN LET n == nextStepPtr(q, p.currentStepPtr)
       IN [p EXCEPT !.currentStepPtr = n,
                    !.delayToStepTimer = timerStart(@, q.steps[n].timeToStepMs)]
  ELSE LET effectiveIterations == U16(p.iterationsToPlay * q.repeatCount)
           stepSuccess == effectiveIterations = 0 \/ p.currentIteration < effectiveIterations
       IN IF stepSuccess
          THEN [p EXCEPT !.currentStepPtr = startOfSequencePtr(q),
                         !.currentIteration = U16(@ + 1),
                         !.delayToStepTimer =
                            timerStart(@, q.steps[startOfSequencePtr(q)].timeToStepMs)]
          ELSE playerStop(p)

isRunning(p) == timerIsRunning(p.delayToStepTimer)

atEndOfSequence(p, q) == nextStepPtr(q, p.currentStepPtr) = NULL

\* the value stepDelayIsDone returns
delayIsDone(p) == timerHasElapsed(p.delayToStepTimer) /\ timerIsRunning(p.delayToStepTimer)

\* the player stepDelayIsDone leaves behind
stepDelayIsDone(p, q) ==
  IF delayIsDone(p) /\ atEndOfSequence(p, q) THEN playerStop(p) ELSE p

modeOfStep(p, q) == q.steps[p.currentStepPtr].modeOfStep

\* ------------------------------------------------------------------------
\* CwwLedController public functions
\* ------------------------------------------------------------------------
\* a variant of setBlinkPeriod that stores its argument as given
setBlinkPeriodAsGiven(c, newPeriod) == [c EXCEPT !.blinkPeriod = newPeriod]

\* the values the three setters return
setBlinkPeriodResult(c, newPeriod) == newPeriod >= 2

setOscillatePeriodResult(c, newPeriod) == newPeriod >= 2

setRefreshIntervalResult(c, newInterval) == newInterval > 0

setBlinkPeriod(c, newPeriod) ==
  [c EXCEPT !.blinkPeriod = IF newPeriod >= 2 THEN newPeriod ELSE 2]

setOscillatePeriod(c, newPeriod) ==
  calcLevelStep([c EXCEPT !.oscillatePeriod = IF newPeriod >= 2 THEN newPeriod ELSE 2])

setRefreshInterval(c, newInterval) ==
  calcLevelStep([c EXCEPT !.refreshInterval = IF newInterval > 0 THEN newInterval ELSE 1])

\* the constructor; levelMid is not assigned by it
construct(usePwm, invertSignal, blinkPeriod, oscillatePeriod, refreshInterval, garbage) ==
  LET c0 == [usePwm |-> usePwm, invertSignal |-> invertSignal,
             ledModeActive |-> LED_OFF, ledModeSetting |-> LED_OFF,
             ledLevel |-> 0, ledDirIsUp |-> FALSE,
             levelMin |-> LEVEL_VALUE_ABS_MIN, levelMax |-> LEVEL_VALUE_ABS_MAX,
             levelMid |-> garbage, levelStep |-> 1,
             refreshInterval |-> IF refreshInterval = 0 THEN 1 ELSE refreshInterval,
             blinkPeriod |-> 2, oscillatePeriod |-> 2, remainingPhases |-> 0,
             updateInterval |-> 0, lastDriveTime |-> 0,
             pin |-> [fn |-> "digitalWrite", val |-> 0]]
      c1 == setOscillatePeriod(setBlinkPeriod(c0, blinkPeriod), oscillatePeriod)
  IN drivePin(setMode4(c1, LED_OFF, 0, 0, TRUE), TRUE)

stepDown(c) == decrementLevel(c, c.levelStep)

stepDownBy(c, stepAmount) == decrementLevel(c, U16(stepAmount * FpOne))

stepUp(c) == incrementLevel(c, c.levelStep)

stepUpBy(c, stepAmount) == incrementLevel(c, U16(stepAmount * FpOne))

stopSequence(p) == IF p.allocated THEN playerStop(p) ELSE p

isPlayingSequence(p) == p.allocated /\ isRunning(p)

\* the level-remapping tail shared by setLevelMin, setLevelMax and setLevelRange:
\* c is the object before the call, c1 the object with the new range stored
remapLevel(c, c1) ==
  LET driveAfterSet == c.ledLevel >= c.levelMin /\ c.ledLevel <= c.levelMax
      levelPercent == U16(((c.ledLevel - c.levelMin) * 32768) \div (c.levelMax - c.levelMin))
      levelOffset == U16(((c1.levelMax - c1.levelMin) * levelPercent) \div 32768)
  IN IF driveAfterSet
     THEN drivePin([c1 EXCEPT !.ledLevel = U16(c1.levelMin + levelOffset)], FALSE)
     ELSE c1

\* a variant of setLevelMin that stores its argument as given
setLevelMinAsGiven(c, levelMinNew) ==
  IF levelMinNew = c.levelMin THEN c
  ELSE calcLevelStep(remapLevel(c, calcLevelMid([c EXCEPT !.levelMin = levelMinNew * FpOne])))

setLevelMin(c, levelMinNew) ==
  IF levelMinNew = c.levelMin THEN c
  ELSE LET levelMinSpec == levelMinNew * FpOne
           c1 == calcLevelMid([c EXCEPT !.levelMin = IF levelMinSpec < c.levelMax
                                                      THEN levelMinSpec
                                                      ELSE U16(c.levelMax - FpOne)])
       IN calcLevelStep(remapLevel(c, c1))

setLevelMax(c, levelMaxNew) ==
  IF levelMaxNew = c.levelMax THEN c
  ELSE LET levelMaxSpec == levelMaxNew * FpOne
           c1 == calcLevelMid([c EXCEPT !.levelMax = IF levelMaxSpec > c.levelMin
                                                      THEN levelMaxSpec
                                                      ELSE U16(c.levelMin + FpOne)])
       IN calcLevelStep(remapLevel(c, c1))

\* a variant of setLevelRange that stores its arguments as given
setLevelRangeAsGiven(c, levelMinNew, levelMaxNew) ==
  remapLevel(c, calcLevelMid([c EXCEPT !.levelMin = U16(levelMinNew * FpOne),
                                       !.levelMax = U16(levelMaxNew * FpOne)]))

\* the value setLevelRange returns
setLevelRangeResult(c, levelMinNew, levelMaxNew) == levelMinNew < levelMaxNew

setLevelRange(c, levelMinNew, levelMaxNew) ==
  LET lo == IF levelMinNew < levelMaxNew THEN levelMinNew
            ELSE IF levelMinNew > levelMaxNew THEN levelMaxNew
            ELSE IF levelMinNew = 0 THEN 0 ELSE levelMaxNew - 1
      hi == IF levelMinNew < levelMaxNew THEN levelMaxNew
            ELSE IF levelMinNew > levelMaxNew THEN levelMinNew
            ELSE IF levelMinNew = 0 THEN 1 ELSE levelMaxNew
      c1 == calcLevelMid([c EXCEPT !.levelMin = U16(lo * FpOne), !.levelMax = U16(hi * FpOne)])
  IN remapLevel(c, c1)

setLevel(c, ledLevelNew) ==
  LET levelNew == U16(ledLevelNew * FpOne)
  IN IF levelNew = LEVEL_VALUE_ABS_MIN THEN setMode4(c, LED_OFF, 0, 0, FALSE)
     ELSE IF levelNew = LEVEL_VALUE_ABS_MAX THEN setMode4(c, LED_ON, 0, 0, FALSE)
     ELSE IF levelNew = c.levelMin THEN setMode4(c, LED_LOW, 0, 0, FALSE)
     ELSE IF levelNew = c.levelMax THEN setMode4(c, LED_HIGH, 0, 0, FALSE)
     ELSE IF c.usePwm
     THEN drivePin([c EXCEPT !.ledLevel = IF levelNew < c.levelMin THEN c.levelMin
                                          ELSE IF levelNew > c.levelMax THEN c.levelMax
                                          ELSE levelNew,
                             !.ledModeSetting = LED_HOLD_LEVEL,
                             !.ledModeActive = LED_HOLD_LEVEL], TRUE)
     ELSE c

\* the value setLevel returns
setLevelResult(c, ledLevelNew) ==
  LET levelNew == U16(ledLevelNew * FpOne)
  IN IF levelNew \in {LEVEL_VALUE_ABS_MIN, LEVEL_VALUE_ABS_MAX, c.levelMin, c.levelMax}
     THEN TRUE
     ELSE IF c.usePwm THEN levelNew >= c.levelMin /\ levelNew <= c.levelMax
     ELSE FALSE

\* the 16-bit ledLevel returned as uint8_t: the low eight bits
currentLevel(c) == U8(c.ledLevel)

\* whether setLevel goes through the public setMode (and so stops the sequence)
setLevelUsesSetMode(c, ledLevelNew) ==
  U16(ledLevelNew * FpOne) \in {LEVEL_VALUE_ABS_MIN, LEVEL_VALUE_ABS_MAX, c.levelMin, c.levelMax}

\* the elapsed time updateIsDue compares with updateInterval
elapsedTime(c) ==
  IF millis < c.lastDriveTime
  THEN ULong((ULONG_MAX - c.lastDriveTime) + millis)
  ELSE millis - c.lastDriveTime

\* the value updateIsDue returns
updateIsDue(c, p) ==
  IF c.updateInterval > 0
  THEN elapsedTime(c) >= c.updateInterval
  ELSE IF ~p.allocated THEN FALSE ELSE delayIsDone(p)

\* the player updateIsDue leaves behind
updateIsDuePlayer(c, p, q) ==
  IF c.updateInterval > 0 \/ ~p.allocated THEN p ELSE stepDelayIsDone(p, q)

\* updateNow takes its first branch
stepIsDue(p) == p.allocated /\ delayIsDone(p)

\* a variant of updateNow's effect on the controller that recomputes and
\* drives the pin on every call in which no sequence step is due
updateNowLedEveryCall(c, p, q) ==
  IF stepIsDue(p)
  THEN setMode4(c, modeOfStep(p, q), 0, c.levelStep, FALSE)
  ELSE drivePin(computeState(c, c.ledModeActive, 0, 0), TRUE)

\* the controller updateNow leaves behind
updateNowLed(c, p, q) ==
  IF stepIsDue(p)
  THEN setMode4(c, modeOfStep(p, q), 0, c.levelStep, FALSE)
  ELSE IF updateIsDue(c, p)
       THEN drivePin(computeState(c, c.ledModeActive, 0, 0), TRUE)
       ELSE c

\* the player updateNow leaves behind
updateNowPlayer(c, p, q) ==
  IF stepIsDue(p)
  THEN advanceOneStep(stepDelayIsDone(p, q), q)
  ELSE updateIsDuePlayer(c, p, q)

\* ------------------------------------------------------------------------
\* History of the calls (not program state).  op names the last call when
\* it was a blink, an oscillate, a fade or startSequence (the calls whose
\* effect unfolds over the following updateNow calls) and is "other" after
\* any other call; updateNow, and an updateIsDue that changes nothing,
\* leave it alone.  arg is the phaseCount of op, exec whether op ran
\* computeState; upd counts the periodic updates and arr the arrivals at
\* levelMin or levelMax since an op with phaseCount >= 1; fed lists the
\* step modes updateNow has passed to setMode since op.
\* ------------------------------------------------------------------------
TrackedOps ==
  {"blink", "blinkMax", "blinkLevel", "oscillate", "fadeUp", "fadeDown", "startSequence"}

atBoundary(c) == c.ledLevel = c.levelMin \/ c.ledLevel = c.levelMax

Bump(n) == IF n < MaxUpd THEN n + 1 ELSE n

Called(opName, a, ex, c2) ==
  IF opName \in TrackedOps
  THEN [op |-> opName, arg |-> a, exec |-> ex, upd |-> 0,
        arr |-> IF ex /\ a >= 1 /\ atBoundary(c2) THEN 1 ELSE 0, fed |-> <<>>]
  ELSE [op |-> "other", arg |-> 0, exec |-> FALSE, upd |-> 0, arr |-> 0, fed |-> <<>>]

\* a call of the public setMode: stopSequence, then the private setMode
ModeCall(opName, ledModeNew, phaseCount, stepAmount) ==
  LET c2 == setMode4(led, ledModeNew, phaseCount, stepAmount, FALSE)
  IN /\ led' = c2
     /\ player' = stopSequence(player)
     /\ hist' = Called(opName, phaseCount, adjustMode(led, ledModeNew) # led.ledModeSetting, c2)
     /\ UNCHANGED <<seq, now>>

\* a call that changes the controller alone and runs no computeState
PlainCall(opName, a, c2) ==
  /\ led' = c2
  /\ hist' = Called(opName, a, FALSE, c2)
  /\ UNCHANGED <<player, seq, now>>

\* ------------------------------------------------------------------------
\* Actions: one per public function
\* ------------------------------------------------------------------------
TurnOff == ModeCall("turnOff", LED_OFF, 0, 0)

TurnOn == ModeCall("turnOn", LED_ON, 0, 0)

Blink == \E n \in PhaseArgs : ModeCall("blink", LED_BLINK, n, 0)

BlinkMax == \E n \in PhaseArgs : ModeCall("blinkMax", LED_BLINK_MAX, n, 0)

BlinkLevel == \E n \in PhaseArgs : ModeCall("blinkLevel", LED_BLINK_LEVEL, n, 0)

TurnLow == ModeCall("turnLow", LED_LOW, 0, 0)

TurnHigh == ModeCall("turnHigh", LED_HIGH, 0, 0)

Toggle == ModeCall("toggle", LED_TOGGLE, 0, 0)

ToggleMax == ModeCall("toggleMax", LED_TOGGLE_MAX, 0, 0)

ToggleLevel == ModeCall("toggleLevel", LED_TOGGLE_LEVEL, 0, 0)

FadeDown == ModeCall("fadeDown", LED_FADE_DOWN, 0, 0)

FadeUp == ModeCall("fadeUp", LED_FADE_UP, 0, 0)

Oscillate == \E n \in PhaseArgs : ModeCall("oscillate", LED_OSCILLATE, n, 0)

Hold == ModeCall("hold", LED_HOLD_LEVEL, 0, 0)

SetMode == \E m \in SetModeArgs : ModeCall("setMode", m, 0, 0)

StepDown == PlainCall("stepDown", 0, stepDown(led))

StepDownBy == \E a \in StepArgs : PlainCall("stepDown", a, stepDownBy(led, a))

StepUp == PlainCall("stepUp", 0, stepUp(led))

StepUpBy == \E a \in StepArgs : PlainCall("stepUp", a, stepUpBy(led, a))

SetLevel ==
  \E v \in LevelArgs :
    /\ led' = setLevel(led, v)
    /\ player' = IF setLevelUsesSetMode(led, v) THEN stopSequence(player) ELSE player
    /\ hist' = Called("setLevel", v, FALSE, led')
    /\ UNCHANGED <<seq, now>>

SetBlinkPeriod == \E v \in PeriodArgs : PlainCall("setBlinkPeriod", v, setBlinkPeriod(led, v))

SetOscillatePeriod ==
  \E v \in PeriodArgs : PlainCall("setOscillatePeriod", v, setOscillatePeriod(led, v))

SetRefreshInterval ==
  \E v \in RefreshArgs : PlainCall("setRefreshInterval", v, setRefreshInterval(led, v))

SetLevelMin == \E v \in LevelArgs : PlainCall("setLevelMin", v, setLevelMin(led, v))

SetLevelMax == \E v \in LevelArgs : PlainCall("setLevelMax", v, setLevelMax(led, v))

SetLevelRange ==
  \E r \in RangeCallArgs : PlainCall("setLevelRange", r[1], setLevelRange(led, r[1], r[2]))

SetPwm == \E b \in BOOLEAN : PlainCall("setPwm", 0, [led EXCEPT !.usePwm = b])

SetInvert ==
  \E b \in BOOLEAN : PlainCall("setInvert", 0, drivePin([led EXCEPT !.invertSignal = b], FALSE))

InstallSequence ==
  LET p0 == IF player.allocated THEN player ELSE newPlayer
      q0 == IF p0.attached THEN detachPlayer(seq) ELSE seq
  IN /\ player' = [p0 EXCEPT !.attached = TRUE, !.currentStepPtr = startOfSequencePtr(seq)]
     /\ seq' = attachPlayer(q0)
     /\ hist' = Called("installSequence", 0, FALSE, led)
     /\ UNCHANGED <<led, now>>

RemoveSequence ==
  /\ player' = noPlayer
  /\ seq' = IF player.allocated /\ player.attached THEN detachPlayer(seq) ELSE seq
  /\ hist' = Called("removeSequence", 0, FALSE, led)
  /\ UNCHANGED <<led, now>>

SetSequenceRepeatCount ==
  \E r \in PlayerRepeatArgs :
    /\ player' = IF player.allocated THEN [player EXCEPT !.iterationsToPlay = r] ELSE player
    /\ hist' = Called("setSequenceRepeatCount", r, FALSE, led)
    /\ UNCHANGED <<led, seq, now>>

StartSequence ==
  /\ player' = IF player.allocated THEN startFirstStep(player, seq) ELSE player
  /\ hist' = Called("startSequence", 0, FALSE, led)
  /\ UNCHANGED <<led, seq, now>>

StopSequence ==
  /\ player' = stopSequence(player)
  /\ hist' = Called("stopSequence", 0, FALSE, led)
  /\ UNCHANGED <<led, seq, now>>

AddStep ==
  \E st \in StepArgsOfSequence :
    /\ Len(seq.steps) < MaxSteps
    /\ seq' = addStep(seq, st[1], st[2])
    /\ hist' = Called("addStep", st[1], FALSE, led)
    /\ UNCHANGED <<led, player, now>>

SeqSetRepeatCount ==
  \E r \in SeqRepeatArgs :
    /\ seq' = [seq EXCEPT !.repeatCount = r]
    /\ hist' = Called("setRepeatCount", r, FALSE, led)
    /\ UNCHANGED <<led, player, now>>

UpdateIsDue ==
  /\ player' = updateIsDuePlayer(led, player, seq)
  /\ hist' = IF player' = player THEN hist ELSE Called("updateIsDue", 0, FALSE, led)
  /\ UNCHANGED <<led, seq, now>>

UpdateNow ==
  /\ stepIsDue(player) => player.currentIteration < MaxIter
  /\ led' = updateNowLed(led, player, seq)
  /\ player' = updateNowPlayer(led, player, seq)
  /\ LET periodic == ~stepIsDue(player) /\ updateIsDue(led, player) /\ hist.arg >= 1
     IN hist' = [hist EXCEPT
          !.upd = IF periodic THEN Bump(@) ELSE @,
          !.arr = IF periodic /\ atBoundary(led') THEN Bump(@) ELSE @,
          !.fed = IF stepIsDue(player) /\ Len(@) < MaxFed
                  THEN Append(@, modeOfStep(player, seq)) ELSE @]
  /\ UNCHANGED <<seq, now>>

\* the millisecond counter advances
Tick ==
  /\ now' = ULong(now + 1)
  /\ UNCHANGED <<led, player, seq, hist>>

\* ------------------------------------------------------------------------
\* The controller alone: constructed, its range configured or not, then
\* driven by mode requests, updateNow and the clock
\* ------------------------------------------------------------------------
histInit ==
  [op |-> "other", arg |-> 0, exec |-> FALSE, upd |-> 0, arr |-> 0, fed |-> <<>>]

Constructed ==
  { construct(usePwm, FALSE, 4, oscillatePeriod, 1, garbage) :
      usePwm \in BOOLEAN, oscillatePeriod \in PeriodArgs, garbage \in GarbageU16 }

Init ==
  /\ now = 0
  /\ \E c \in Constructed :
        \/ led = c
        \/ \E r \in RangeArgs :
             led = setOscillatePeriod(setLevelRange(c, r[1], r[2]), c.oscillatePeriod)
  /\ player = noPlayer
  /\ seq = newSequence
  /\ hist = histInit

Next ==
  \/ TurnOff \/ TurnOn \/ Blink \/ BlinkMax \/ BlinkLevel \/ TurnLow \/ TurnHigh
  \/ Toggle \/ ToggleMax \/ ToggleLevel \/ StepDown \/ StepUp
  \/ FadeDown \/ FadeUp \/ Oscillate \/ Hold \/ SetMode \/ SetLevel
  \/ UpdateNow \/ Tick

Spec == Init /\ [][Next]_vars

\* ------------------------------------------------------------------------
\* The controller playing a sequence: a PWM controller and a sequence
\* built with addStep, then the sequence calls, some mode requests,
\* updateIsDue, updateNow and the clock
\* ------------------------------------------------------------------------
SeqInit ==
  /\ now = 0
  /\ led = construct(TRUE, FALSE, 4, 4, 1, 0)
  /\ player = noPlayer
  /\ seq = newSequence
  /\ hist = histInit

SeqNext ==
  \/ AddStep \/ SeqSetRepeatCount \/ InstallSequence \/ RemoveSequence
  \/ SetSequenceRepeatCount \/ StartSequence \/ StopSequence
  \/ TurnOn \/ StepUp
  \/ UpdateIsDue \/ UpdateNow \/ Tick

SeqSpec == SeqInit /\ [][SeqNext]_vars

\* ------------------------------------------------------------------------
\* A PWM controller polled forever: the caller's loop keeps calling
\* updateNow as the clock advances, and may make fade, step, turnOn and
\* setLevel requests in between
\* ------------------------------------------------------------------------
FadeInit ==
  /\ now = 0
  /\ \E oscillatePeriod \in PeriodArgs, garbage \in GarbageU16 :
       LET c == construct(TRUE, FALSE, 4, oscillatePeriod, 1, garbage)
       IN \/ led = c
          \/ \E r \in RangeArgs :
               led = setOscillatePeriod(setLevelRange(c, r[1], r[2]), c.oscillatePeriod)
  /\ player = noPlayer
  /\ seq = newSequence
  /\ hist = histInit

FadeNext ==
  \/ FadeUp \/ FadeDown \/ StepUp \/ StepDown \/ TurnOn \/ SetLevel
  \/ UpdateNow \/ Tick

FadeSpec == FadeInit /\ [][FadeNext]_vars /\ WF_vars(Tick) /\ WF_vars(UpdateNow)

\* ------------------------------------------------------------------------
\* The polling loop: a PWM controller with a sequence, periodic modes and
\* sequence playing side by side, updateIsDue and updateNow called at any
\* time
\* ------------------------------------------------------------------------
PollNext ==
  \/ AddStep \/ InstallSequence \/ StartSequence
  \/ BlinkMax \/ FadeUp \/ FadeDown
  \/ UpdateIsDue \/ UpdateNow \/ Tick

PollSpec == SeqInit /\ [][PollNext]_vars

\* ------------------------------------------------------------------------
\* Range configuration: a constructed controller whose level range and PWM
\* flag are changed by the setters at any time, between setLevel and
\* turnOn requests
\* ------------------------------------------------------------------------
RangeInit ==
  /\ now = 0
  /\ led \in Constructed
  /\ player = noPlayer
  /\ seq = newSequence
  /\ hist = histInit

RangeNext ==
  \/ SetLevelMin \/ SetLevelMax \/ SetLevelRange \/ SetPwm
  \/ SetLevel \/ TurnOn

RangeSpec == RangeInit /\ [][RangeNext]_vars

\* ------------------------------------------------------------------------
\* Timing configuration: a PWM controller constructed with any periods and
\* refresh interval, the three timing setters called at any time, between
\* blink and fade requests and updates
\* ------------------------------------------------------------------------
TimingInit ==
  /\ now = 0
  /\ \E blinkPeriod \in PeriodProbeArgs, oscillatePeriod \in PeriodProbeArgs,
        refreshInterval \in RefreshArgs :
       led = construct(TRUE, FALSE, blinkPeriod, oscillatePeriod, refreshInterval, 0)
  /\ player = noPlayer
  /\ seq = newSequence
  /\ hist = histInit

TimingNext ==
  \/ SetBlinkPeriod \/ SetOscillatePeriod \/ SetRefreshInterval
  \/ BlinkMax \/ FadeUp \/ UpdateNow \/ Tick

TimingSpec == TimingInit /\ [][TimingNext]_vars

\* ------------------------------------------------------------------------
\* Several controllers sharing sequences.  In this specification led and
\* player are functions of the controller (led[k] is controller k,
\* player[k] its sequence player) and seq is a function of the sequence.
\* A player carries two more fields: attachedSequencePtr, the sequence it
\* is attached to (NULL for none), and cursorDangling, which tells that the
\* step currentStepPtr points to has been deleted.
\* ------------------------------------------------------------------------
Controllers == {1, 2}
Sequences == {1, 2}
\* the controllers whose sequence is started and updated; the others only
\* install and remove sequences
PlayingControllers == {1}
SharedStepArgs == {<<1, LED_ON>>}
GarbageModes == {LED_ON, LED_OFF}

newSharedPlayer == newPlayer @@ [attachedSequencePtr |-> NULL, cursorDangling |-> FALSE]

\* the sequences detachSequence leaves behind
detachSequence(p, qs) ==
  IF p.attachedSequencePtr # NULL
  THEN [qs EXCEPT ![p.attachedSequencePtr] = detachPlayer(@)]
  ELSE qs

\* a variant of attachSequence that does not detach the sequence the player
\* is attached to already
attachSequenceKeepingOld(p, qs, sequencePtr) ==
  [qs EXCEPT ![sequencePtr] = attachPlayer(@)]

\* the sequences attachSequence leaves behind
attachSequence(p, qs, sequencePtr) ==
  [detachSequence(p, qs) EXCEPT ![sequencePtr] = attachPlayer(@)]

\* the player attachSequence leaves behind
attachSequencePlayer(p, qs, sequencePtr) ==
  [p EXCEPT !.attached = TRUE,
            !.attachedSequencePtr = sequencePtr,
            !.currentStepPtr = startOfSequencePtr(qs[sequencePtr]),
            !.cursorDangling = FALSE]

\* the sequence a player reads: the attached one
attachedSequence(p, qs) ==
  IF p.attachedSequencePtr # NULL THEN qs[p.attachedSequencePtr] ELSE newSequence

\* currentStepPtr points to a step of the attached sequence
cursorIsValid(p, qs) ==
  /\ p.attachedSequencePtr # NULL
  /\ p.currentStepPtr # NULL
  /\ ~p.cursorDangling
  /\ p.currentStepPtr <= Len(qs[p.attachedSequencePtr].steps)

\* stepDelayIsDone reads through a currentStepPtr that is NULL or dangling
readsInvalidCursor(p, qs) == p.allocated /\ delayIsDone(p) /\ ~cursorIsValid(p, qs)

\* what advanceOneStep can leave behind after an invalid currentStepPtr was
\* read: nothing when the attached sequence is empty; otherwise the garbage
\* nextStepPtr is NULL (wrap to the start, or stop) or not (the cursor moves
\* to garbage and the timer starts with a garbage delay)
advanceFromInvalidCursor(p, q) ==
  IF startOfSequencePtr(q) = NULL THEN {p}
  ELSE {advanceOneStep([p EXCEPT !.currentStepPtr = Len(q.steps), !.cursorDangling = FALSE], q)}
       \cup {[p EXCEPT !.cursorDangling = TRUE,
                       !.delayToStepTimer = timerStart(@, st[1])] : st \in SharedStepArgs}

InstallSequenceShared ==
  \E k \in Controllers, s \in Sequences :
    LET p0 == IF player[k].allocated THEN player[k] ELSE newSharedPlayer
    IN /\ player' = [player EXCEPT ![k] = attachSequencePlayer(p0, seq, s)]
       /\ seq' = attachSequence(p0, seq, s)
       /\ UNCHANGED <<led, now, hist>>

RemoveSequenceShared ==
  \E k \in Controllers :
    /\ seq' = IF player[k].allocated THEN detachSequence(player[k], seq) ELSE seq
    /\ player' = [player EXCEPT ![k] = [newSharedPlayer EXCEPT !.allocated = FALSE]]
    /\ UNCHANGED <<led, now, hist>>

AddStepShared ==
  \E s \in Sequences, st \in SharedStepArgs :
    /\ Len(seq[s].steps) < MaxSteps
    /\ seq' = [seq EXCEPT ![s] = addStep(@, st[1], st[2])]
    /\ UNCHANGED <<led, player, now, hist>>

\* discardAll, forced or not: the steps it deletes are the steps the
\* attached players' cursors point to
DiscardAllShared ==
  \E s \in Sequences, forceDiscard \in BOOLEAN :
    /\ seq' = [seq EXCEPT ![s] = discardAll(@, forceDiscard)]
    /\ player' = [k \in Controllers |->
         IF /\ seq'[s].steps # seq[s].steps
            /\ player[k].allocated
            /\ player[k].attachedSequencePtr = s
            /\ player[k].currentStepPtr # NULL
         THEN [player[k] EXCEPT !.cursorDangling = TRUE]
         ELSE player[k]]
    /\ UNCHANGED <<led, now, hist>>

StartSequenceShared ==
  \E k \in PlayingControllers :
    /\ player[k].allocated
    /\ LET q == attachedSequence(player[k], seq)
           p1 == startFirstStep(player[k], q)
       IN player' = [player EXCEPT ![k] =
            IF startOfSequencePtr(q) # NULL THEN [p1 EXCEPT !.cursorDangling = FALSE] ELSE p1]
    /\ UNCHANGED <<led, seq, now, hist>>

UpdateIsDueShared ==
  \E k \in PlayingControllers :
    /\ IF led[k].updateInterval = 0 /\ readsInvalidCursor(player[k], seq)
       THEN \E p1 \in {player[k], playerStop(player[k])} :
              player' = [player EXCEPT ![k] = p1]
       ELSE player' = [player EXCEPT ![k] =
              updateIsDuePlayer(led[k], @, attachedSequence(@, seq))]
    /\ UNCHANGED <<led, seq, now, hist>>

UpdateNowShared ==
  \E k \in PlayingControllers :
    LET p == player[k]
        q == attachedSequence(p, seq)
    IN /\ stepIsDue(p) => p.currentIteration < MaxIter
       /\ IF readsInvalidCursor(p, seq)
          THEN \E atEnd \in BOOLEAN, garbage \in GarbageModes :
                 /\ led' = [led EXCEPT ![k] = setMode4(@, garbage, 0, @.levelStep, FALSE)]
                 /\ \E p1 \in advanceFromInvalidCursor(IF atEnd THEN playerStop(p) ELSE p, q) :
                      player' = [player EXCEPT ![k] = p1]
          ELSE /\ led' = [led EXCEPT ![k] = updateNowLed(@, p, q)]
               /\ player' = [player EXCEPT ![k] = updateNowPlayer(led[k], p, q)]
       /\ UNCHANGED <<seq, now, hist>>

ShareInit ==
  /\ now = 0
  /\ led = [k \in Controllers |-> construct(TRUE, FALSE, 4, 4, 1, 0)]
  /\ player = [k \in Controllers |-> [newSharedPlayer EXCEPT !.allocated = FALSE]]
  /\ seq = [s \in Sequences |-> newSequence]
  /\ hist = histInit

ShareNext ==
  \/ InstallSequenceShared \/ RemoveSequenceShared
  \/ AddStepShared \/ DiscardAllShared
  \/ StartSequenceShared \/ UpdateIsDueShared \/ UpdateNowShared \/ Tick

ShareSpec == ShareInit /\ [][ShareNext]_vars

\* ------------------------------------------------------------------------
\* Properties
\* ------------------------------------------------------------------------

\* the level a steady mode stands for
SteadyLevel(c, m) ==
  CASE m = LED_OFF -> LEVEL_VALUE_ABS_MIN
    [] m = LED_ON -> LEVEL_VALUE_ABS_MAX
    [] m = LED_LOW -> c.levelMin
    [] m = LED_HIGH -> c.levelMax

\* C1: whenever computeState executes LED_OFF, LED_ON, LED_LOW or LED_HIGH,
\* the level is afterwards the absolute minimum, the absolute maximum,
\* levelMin, levelMax respectively, the active mode is that same mode and
\* updateInterval is 0 (stated of the engine in every reachable state)
C1_SteadyModesSnap ==
  \A m \in {LED_OFF, LED_ON, LED_LOW, LED_HIGH} :
    LET c2 == computeState(led, m, 0, 0)
    IN /\ c2.ledLevel = SteadyLevel(led, m)
       /\ c2.ledModeActive = m
       /\ c2.updateInterval = 0

\* C2: in every reachable state setLevel(0) leaves the level at the
\* absolute minimum with active mode LED_OFF, and setLevel(255) leaves it
\* at the absolute maximum with active mode LED_ON
C2_SetLevelExtremes ==
  /\ setLevel(led, 0).ledLevel = LEVEL_VALUE_ABS_MIN
  /\ setLevel(led, 0).ledModeActive = LED_OFF
  /\ setLevel(led, 255).ledLevel = LEVEL_VALUE_ABS_MAX
  /\ setLevel(led, 255).ledModeActive = LED_ON

\* the three toggle calls as functions of the controller
toggleMax(c) == setMode4(c, LED_TOGGLE_MAX, 0, 0, FALSE)

toggleLevel(c) == setMode4(c, LED_TOGGLE_LEVEL, 0, 0, FALSE)

toggle(c) == setMode4(c, LED_TOGGLE, 0, 0, FALSE)

\* the extreme opposite to the side of the midpoint the level is on
OppositeMax(c) ==
  IF c.ledLevel > LEVEL_VALUE_ABS_MID THEN LEVEL_VALUE_ABS_MIN ELSE LEVEL_VALUE_ABS_MAX

OppositeLevel(c) ==
  IF c.ledLevel > c.levelMin + ((c.levelMax - c.levelMin) \div 2) THEN c.levelMin ELSE c.levelMax

\* C3: in every reachable state a call of toggleMax(), toggleLevel() or
\* toggle() moves the level to the extreme opposite to the side of the
\* midpoint it was on and leaves the controller steady; two toggleMax()
\* calls in a row bring an extreme level back to where it was
C3_ToggleFlips ==
  /\ toggleMax(led).ledLevel = OppositeMax(led)
  /\ toggleMax(led).updateInterval = 0
  /\ toggleLevel(led).ledLevel = OppositeLevel(led)
  /\ toggleLevel(led).updateInterval = 0
  /\ toggle(led).ledLevel \in {OppositeMax(led), OppositeLevel(led)}
  /\ toggle(led).updateInterval = 0
  /\ led.ledLevel \in {LEVEL_VALUE_ABS_MIN, LEVEL_VALUE_ABS_MAX}
       => toggleMax(toggleMax(led)).ledLevel = led.ledLevel

\* C4: every public mode request (here turnOn() and stepUp()) leaves no
\* sequence playing, and the updateNow() after it applies no step of the
\* sequence that was running
C4_RequestStopsSequence ==
  [][(TurnOn \/ StepUp) => ~isPlayingSequence(player') /\ ~stepIsDue(player')]_vars

\* a finite blinkMax request that was executed and is still the last call
BlinkMaxRun(h) == h.op = "blinkMax" /\ h.exec /\ h.arg >= 1

\* C5: BLINK_MAX executed with phaseCount = n >= 1 and continued by due
\* updates alone flips the level between the absolute extremes n times,
\* the request being the first flip; after each of the first n-1 flips the
\* active mode is LED_BLINK_MAX with updateInterval = blinkPeriod / 2, and
\* with the n-th flip the active mode is LED_ON or LED_OFF, matching the
\* level, with updateInterval 0 (so no further flip follows)
C5_BlinkMaxCountsPhases ==
  [][BlinkMaxRun(hist') =>
       /\ hist'.upd + 1 <= hist'.arg
       /\ led'.ledLevel \in {LEVEL_VALUE_ABS_MIN, LEVEL_VALUE_ABS_MAX}
       /\ hist'.upd + 1 < hist'.arg =>
             /\ led'.ledModeActive = LED_BLINK_MAX
             /\ led'.updateInterval = led'.blinkPeriod \div 2
       /\ hist'.upd + 1 = hist'.arg =>
             /\ led'.ledModeActive =
                  (IF led'.ledLevel = LEVEL_VALUE_ABS_MAX THEN LED_ON ELSE LED_OFF)
             /\ led'.updateInterval = 0
       /\ (BlinkMax \/ hist'.upd = hist.upd + 1) => led'.ledLevel = OppositeMax(led)
    ]_vars

C5_Witness ==
  /\ BlinkMaxRun(hist)
  /\ hist.arg = MaxPhase
  /\ hist.upd = MaxPhase - 1
  /\ led.ledModeActive \in {LED_ON, LED_OFF}
  /\ led.updateInterval = 0

\* C6: a blink, blinkMax, blinkLevel or oscillate request with phaseCount 0
\* that is executed runs indefinitely: as long as it is the last request,
\* the active mode is a blinking or oscillating mode with updateInterval > 0
C6_ZeroPhaseCountRunsForever ==
  (hist.op \in {"blink", "blinkMax", "blinkLevel", "oscillate"} /\ hist.exec /\ hist.arg = 0)
    => /\ led.ledModeActive \in {LED_BLINK_MAX, LED_BLINK_LEVEL, LED_OSCILLATE}
       /\ led.updateInterval > 0

\* a finite oscillate request on a PWM pin that was executed and is still
\* the last call
OscillateRun(h, c) == h.op = "oscillate" /\ h.exec /\ h.arg >= 1 /\ c.usePwm

\* C7: OSCILLATE executed with phaseCount = n >= 1 on a PWM pin and continued
\* by due updates alone stays LED_OSCILLATE with updateInterval =
\* refreshInterval until the level has arrived at levelMin or levelMax n
\* times, and with the n-th arrival it is LED_HIGH at levelMax or LED_LOW
\* at levelMin with updateInterval 0
C7_OscillateCountsArrivals ==
  OscillateRun(hist, led) =>
    /\ hist.arr <= hist.arg
    /\ hist.arr < hist.arg =>
          /\ led.ledModeActive = LED_OSCILLATE
          /\ led.updateInterval = led.refreshInterval
    /\ hist.arr = hist.arg =>
          /\ \/ led.ledModeActive = LED_HIGH /\ led.ledLevel = led.levelMax
             \/ led.ledModeActive = LED_LOW /\ led.ledLevel = led.levelMin
          /\ led.updateInterval = 0

\* the distance of the level from a bound
Distance(c, bound) == IF c.ledLevel >= bound THEN c.ledLevel - bound ELSE bound - c.ledLevel

\* C8: on a PWM pin, once fadeUp() (fadeDown()) has been called and stays
\* the last request, polling updateNow as time advances eventually leaves
\* the level at levelMax (levelMin) with active mode LED_HIGH (LED_LOW) and
\* updateInterval 0, and no update moves the level away from that bound
C8_FadeArrives ==
  /\ (hist.op = "fadeUp") ~>
        \/ hist.op # "fadeUp"
        \/ led.ledLevel = led.levelMax /\ led.ledModeActive = LED_HIGH /\ led.updateInterval = 0
  /\ (hist.op = "fadeDown") ~>
        \/ hist.op # "fadeDown"
        \/ led.ledLevel = led.levelMin /\ led.ledModeActive = LED_LOW /\ led.updateInterval = 0
  /\ [][/\ hist'.op = "fadeUp" => Distance(led', led.levelMax) <= Distance(led, led.levelMax)
        /\ hist'.op = "fadeDown" => Distance(led', led.levelMin) <= Distance(led, led.levelMin)
       ]_vars

\* startSequence() was the last call, made with a player installed and a
\* sequence of at least one step
SequenceRun(h, p, q) == h.op = "startSequence" /\ p.allocated /\ q.steps # <<>>

\* the effective iteration count: player repeat count x sequence repeat count
EffectiveIterations(p, q) == p.iterationsToPlay * q.repeatCount

\* C9: a sequence of k >= 1 steps started with startSequence() and driven by
\* updateNow() alone has its step modes fed to setMode in the order
\* m1..mk, pass after pass, each only once its own delay has elapsed on
\* the running timer; with N = player repeat x sequence repeat > 0 it is
\* playing exactly until k*N modes were fed and stopped from then on,
\* with N = 0 it keeps playing
C9_SequencePlaysInOrder ==
  [][SequenceRun(hist', player', seq') =>
       LET k == Len(seq'.steps)
           N == EffectiveIterations(player', seq')
           fed == hist'.fed
       IN /\ \A i \in 1..Len(fed) : fed[i] = seq'.steps[((i - 1) % k) + 1].modeOfStep
          /\ N > 0 => /\ Len(fed) <= k * N
                      /\ isPlayingSequence(player') <=> Len(fed) < k * N
          /\ N = 0 => isPlayingSequence(player')
          /\ Len(fed) = Len(hist.fed) + 1 /\ hist.op = "startSequence" =>
                /\ timerIsRunning(player.delayToStepTimer)
                /\ player.delayToStepTimer.delay = seq.steps[player.currentStepPtr].timeToStepMs
                /\ ULong(now - player.delayToStepTimer.startTime + TimeMod)
                     >= seq.steps[player.currentStepPtr].timeToStepMs
    ]_vars

C9_Witness ==
  /\ SequenceRun(hist, player, seq)
  /\ seq.steps = <<[timeToStepMs |-> 1, modeOfStep |-> LED_ON],
                   [timeToStepMs |-> 2, modeOfStep |-> LED_OFF]>>
  /\ EffectiveIterations(player, seq) = 2
  /\ hist.fed = <<LED_ON, LED_OFF, LED_ON, LED_OFF>>
  /\ ~isPlayingSequence(player)

\* C10: in every reachable state in which updateIsDue() returns true, the
\* updateNow() that follows it at the same time performs the pending update
\* (the due sequence step or the due periodic transition) and leaves the
\* controller and the player as updateNow() alone would have left them
C10_UpdateIsDueHarmless ==
  updateIsDue(led, player) =>
    LET p1 == updateIsDuePlayer(led, player, seq)
    IN /\ stepIsDue(p1) \/ updateIsDue(led, p1)
       /\ updateNowLed(led, p1, seq) = updateNowLed(led, player, seq)
       /\ updateNowPlayer(led, p1, seq) = updateNowPlayer(led, player, seq)

\* C11: in every reachable state where no periodic update is due and no
\* sequence step delay is done, updateNow() leaves the controller (level,
\* modes, direction, updateInterval, remainingPhases, lastDriveTime, the
\* value last written to the pin) and the player (cursor, timer,
\* iteration) exactly as they were
C11_UpdateNowIdle ==
  (~stepIsDue(player) /\ ~updateIsDue(led, player)) =>
     /\ updateNowLed(led, player, seq) = led
     /\ updateNowPlayer(led, player, seq) = player

C11_Witness ==
  /\ isPlayingSequence(player)
  /\ ~stepIsDue(player)
  /\ led.updateInterval > 0
  /\ led.lastDriveTime # now
  /\ ~updateIsDue(led, player)

\* the intermediate levels tried with setLevel
ClampArgs == {1, 64, 100, 200, 254}

\* C12: in every reachable state setLevel(v) with v other than 0 and 255 and
\* v outside [levelMin, levelMax] returns false and leaves the level at
\* levelMin if v was below the range, at levelMax if v was above it
C12_SetLevelClamps ==
  \A v \in ClampArgs :
    LET levelNew == v * FpOne
    IN (levelNew < led.levelMin \/ levelNew > led.levelMax) =>
         /\ ~setLevelResult(led, v)
         /\ setLevel(led, v).ledLevel =
              (IF levelNew < led.levelMin THEN led.levelMin ELSE led.levelMax)

\* the argument pairs setLevelRange is examined with
RangeProbeArgs ==
  RangeCallArgs \cup {<<255, 255>>, <<255, 0>>, <<1, 1>>, <<0, 1>>, <<254, 255>>, <<1, 0>>}

\* C13: in every reachable state setLevelRange(min, max) with min >= max
\* returns false and leaves (levelMin, levelMax) = (max, min) when min > max,
\* (0, 1) when min = max = 0 and (max - 1, max) when min = max > 0; with
\* min < max it returns true and leaves exactly (min, max); all in integer
\* level units
C13_SetLevelRangeCorrects ==
  \A r \in RangeProbeArgs :
    LET min == r[1]
        max == r[2]
        c2 == setLevelRange(led, min, max)
        expected == IF min < max THEN <<min, max>>
                    ELSE IF min > max THEN <<max, min>>
                    ELSE IF max = 0 THEN <<0, 1>>
                    ELSE <<max - 1, max>>
    IN /\ setLevelRangeResult(led, min, max) = (min < max)
       /\ c2.levelMin = expected[1] * FpOne
       /\ c2.levelMax = expected[2] * FpOne

C13_Witness ==
  /\ hist.op = "other"
  /\ led.levelMin = 199 * FpOne
  /\ led.levelMax = 200 * FpOne
  /\ led.ledLevel >= led.levelMin
  /\ led.ledLevel <= led.levelMax

\* C14: in every reachable state, also right after construction with any
\* arguments, blinkPeriod >= 2, oscillatePeriod >= 2 and refreshInterval
\* >= 1; setBlinkPeriod(p) and setOscillatePeriod(p) with p < 2 return
\* false and store 2, setRefreshInterval(0) returns false and stores 1, and
\* every other argument is stored unchanged with a true result
C14_TimingSettersNeverInvalid ==
  /\ led.blinkPeriod >= 2
  /\ led.oscillatePeriod >= 2
  /\ led.refreshInterval >= 1
  /\ \A p \in PeriodProbeArgs :
       /\ setBlinkPeriodResult(led, p) = (p >= 2)
       /\ setBlinkPeriod(led, p).blinkPeriod = (IF p < 2 THEN 2 ELSE p)
       /\ setOscillatePeriodResult(led, p) = (p >= 2)
       /\ setOscillatePeriod(led, p).oscillatePeriod = (IF p < 2 THEN 2 ELSE p)
  /\ \A r \in RefreshProbeArgs :
       /\ setRefreshIntervalResult(led, r) = (r # 0)
       /\ setRefreshInterval(led, r).refreshInterval = (IF r = 0 THEN 1 ELSE r)

C14_Witness ==
  /\ led.ledModeActive = LED_BLINK_MAX
  /\ led.blinkPeriod = 2
  /\ led.updateInterval = 1
  /\ led.oscillatePeriod = 2
  /\ led.refreshInterval = 1

\* the 8-bit arguments the range setters are examined with
ByteProbeArgs == {0, 1, 127, 128, 254, 255}

\* absolute-min <= levelMin < levelMax <= absolute-max
RangeIsValid(c) ==
  /\ LEVEL_VALUE_ABS_MIN <= c.levelMin
  /\ c.levelMin < c.levelMax
  /\ c.levelMax <= LEVEL_VALUE_ABS_MAX

\* C15: after any sequence of setLevelMin, setLevelMax and setLevelRange
\* calls, valid or not, absolute-min <= levelMin < levelMax <= absolute-max
\* holds (so the span the relative position is divided by is never zero),
\* and it still holds after one more such call with any 8-bit argument
C15_RangeStaysValid ==
  /\ RangeIsValid(led)
  /\ \A v \in ByteProbeArgs :
       /\ RangeIsValid(setLevelMin(led, v))
       /\ RangeIsValid(setLevelMax(led, v))
       /\ \A w \in ByteProbeArgs : RangeIsValid(setLevelRange(led, v, w))

C15_Witness ==
  /\ led.levelMin = 254 * FpOne
  /\ led.levelMax = 255 * FpOne
  /\ led.ledLevel = led.levelMax


\* the level of c2 is within one fixed-point unit of the place in c2's range
\* that has the relative position the level of c has in c's range; the range
\* limits are whole levels shifted by LEVEL_FP_BITS, so the spans are taken in
\* whole levels and the exact quotient is avoided by multiplying through
RemapIsClose(c, c2) ==
  LET oldSpan == (c.levelMax - c.levelMin) \div FpOne
      newSpan == (c2.levelMax - c2.levelMin) \div FpOne
      exact   == (c.ledLevel - c.levelMin) * newSpan
      got     == (c2.ledLevel - c2.levelMin) * oldSpan
  IN (c.ledLevel >= c.levelMin /\ c.ledLevel <= c.levelMax) =>
       (got - exact <= oldSpan /\ exact - got <= oldSpan)

\* C16: a call of setLevelMin, setLevelMax or setLevelRange made while the
\* level L lies inside the old range leaves the level within 1 unit of
\* newMin + (L - oldMin) * (newMax - newMin) / (oldMax - oldMin); re-applying
\* the configured range leaves the level within 1 unit of L
C16_RemapKeepsPosition ==
  /\ \A v \in ByteProbeArgs :
       /\ RemapIsClose(led, setLevelMin(led, v))
       /\ RemapIsClose(led, setLevelMax(led, v))
  /\ \A r \in RangeProbeArgs : RemapIsClose(led, setLevelRange(led, r[1], r[2]))
  /\ RemapIsClose(led, setLevelRange(led, led.levelMin \div FpOne, led.levelMax \div FpOne))


\* what a step is said to leave behind: the level one delta away from the
\* level of c (kept inside the range), the active mode by where the level
\* is, no periodic follow-up, and the level written to the output
StepHasSettled(c, c2, signedDelta) ==
  LET moved == c.ledLevel + signedDelta
      target == IF moved > c.levelMax THEN c.levelMax
                ELSE IF moved < c.levelMin THEN c.levelMin ELSE moved
  IN /\ c2.ledLevel = target
     /\ c2.ledModeActive = (IF c2.ledLevel = c2.levelMax THEN LED_HIGH
                            ELSE IF c2.ledLevel = c2.levelMin THEN LED_LOW
                            ELSE LED_HOLD_LEVEL)
     /\ c2.updateInterval = 0
     /\ c2.pin = PinWrite(c2)

\* C17: after stepUp() or stepDown(), with or without a step amount, on a
\* PWM controller the level has moved by one delta (levelStep or the given
\* amount), the active mode is LED_HIGH / LED_LOW at levelMax / levelMin and
\* LED_HOLD_LEVEL otherwise, updateInterval is 0 and the new level has been
\* written to the output
C17_StepSettles ==
  led.usePwm =>
    /\ StepHasSettled(led, stepUp(led), led.levelStep)
    /\ StepHasSettled(led, stepDown(led), 0 - led.levelStep)
    /\ \A a \in StepArgs :
         /\ StepHasSettled(led, stepUpBy(led, a), a * FpOne)
         /\ StepHasSettled(led, stepDownBy(led, a), 0 - a * FpOne)


\* C19: whenever updateInterval > 0, the elapsed time updateIsDue() compares
\* with updateInterval equals (now - lastDriveTime) modulo the size of the
\* millisecond counter, also when the counter has wrapped (now < lastDriveTime)
C19_ElapsedIsModular ==
  led.updateInterval > 0 =>
    elapsedTime(led) = (now - led.lastDriveTime + TimeMod) % TimeMod


\* C20: without PWM, adjustMode maps LED_STEP_UP and LED_FADE_UP to LED_ON,
\* LED_STEP_DOWN and LED_FADE_DOWN to LED_OFF, LED_FADE_REVERSE to
\* LED_TOGGLE_MAX, LED_OSCILLATE and LED_BLINK_LEVEL to LED_BLINK_MAX, and
\* LED_HOLD_LEVEL to the active mode, whatever the active mode is
C20_NoPwmDegrades ==
  ~led.usePwm =>
    /\ adjustMode(led, LED_STEP_UP) = LED_ON
    /\ adjustMode(led, LED_FADE_UP) = LED_ON
    /\ adjustMode(led, LED_STEP_DOWN) = LED_OFF
    /\ adjustMode(led, LED_FADE_DOWN) = LED_OFF
    /\ adjustMode(led, LED_FADE_REVERSE) = LED_TOGGLE_MAX
    /\ adjustMode(led, LED_OSCILLATE) = LED_BLINK_MAX
    /\ adjustMode(led, LED_BLINK_LEVEL) = LED_BLINK_MAX
    /\ adjustMode(led, LED_HOLD_LEVEL) = led.ledModeActive

C20_Witness ==
  /\ ~led.usePwm
  /\ hist.op = "oscillate"
  /\ hist.exec
  /\ led.ledModeSetting = LED_BLINK_MAX
  /\ led.ledModeActive = LED_BLINK_MAX


\* C21: with or without PWM, adjustMode resolves LED_TOGGLE to
\* LED_TOGGLE_MAX if the active mode is LED_OFF, LED_ON or LED_BLINK_MAX and
\* to LED_TOGGLE_LEVEL otherwise; it resolves LED_BLINK to the active mode
\* if that is LED_BLINK_MAX or LED_BLINK_LEVEL, to LED_BLINK_MAX if the
\* active mode is LED_OFF or LED_ON, and to LED_BLINK_LEVEL otherwise
C21_GenericModesResolve ==
  /\ adjustMode(led, LED_TOGGLE) =
       (IF led.ledModeActive \in {LED_OFF, LED_ON, LED_BLINK_MAX}
        THEN LED_TOGGLE_MAX ELSE LED_TOGGLE_LEVEL)
  /\ adjustMode(led, LED_BLINK) =
       (IF led.ledModeActive \in {LED_BLINK_MAX, LED_BLINK_LEVEL} THEN led.ledModeActive
        ELSE IF led.ledModeActive \in {LED_OFF, LED_ON} THEN LED_BLINK_MAX
        ELSE LED_BLINK_LEVEL)

C21_Witness ==
  /\ ~led.usePwm
  /\ hist.op = "blink"
  /\ hist.exec
  /\ led.ledModeSetting = LED_BLINK_LEVEL


GenericModes == {LED_TOGGLE, LED_BLINK}

\* the modes the spec lists as translated when PWM is not available
ListedForDowngrade ==
  {LED_STEP_UP, LED_STEP_DOWN, LED_FADE_UP, LED_FADE_DOWN, LED_FADE_REVERSE,
   LED_OSCILLATE, LED_BLINK_LEVEL, LED_HOLD_LEVEL}

\* the modes adjustMode translates when PWM is not available
TranslatedWithoutPwm == ListedForDowngrade \cup {LED_HIGH, LED_LOW}

\* C22: every requested mode that is neither generic nor, without PWM, one
\* of the modes listed for downgrade is returned unchanged by adjustMode,
\* for every active mode; with PWM every non-generic mode is returned
\* unchanged
C22_OtherModesPassThrough ==
  \A m \in cwwEnumLedMode \ GenericModes :
    (led.usePwm \/ m \notin ListedForDowngrade) => adjustMode(led, m) = m

\* C22 as amended: LED_HIGH and LED_LOW are translated without PWM as well
\* (to LED_ON and LED_OFF); every other non-generic, untranslated mode is
\* returned unchanged
C22_UntranslatedModesPassThrough ==
  /\ \A m \in cwwEnumLedMode \ GenericModes :
       (led.usePwm \/ m \notin TranslatedWithoutPwm) => adjustMode(led, m) = m
  /\ ~led.usePwm => /\ adjustMode(led, LED_HIGH) = LED_ON
                    /\ adjustMode(led, LED_LOW) = LED_OFF

C22_Witness ==
  /\ ~led.usePwm
  /\ led.ledModeSetting = LED_TOGGLE_LEVEL
  /\ led.ledModeActive # LED_LOW


\* max(1, floor((levelMax - levelMin) / ceil(floor(oscillatePeriod / 2) / refreshInterval)))
ExpectedLevelStep(c) ==
  LET halfPeriod == c.oscillatePeriod \div 2
      stepsPerHalfPeriod == (halfPeriod + c.refreshInterval - 1) \div c.refreshInterval
      quotient == (c.levelMax - c.levelMin) \div stepsPerHalfPeriod
  IN IF quotient < 1 THEN 1 ELSE quotient

\* C23: after construction and after any sequence of setLevelMin,
\* setLevelMax, setLevelRange, setOscillatePeriod and setRefreshInterval
\* calls, levelStep equals max(1, floor((levelMax - levelMin) /
\* ceil(floor(oscillatePeriod / 2) / refreshInterval))) of the current
\* values, and so 1 <= levelStep <= levelMax - levelMin
C23_LevelStepIsCurrent ==
  /\ led.levelStep = ExpectedLevelStep(led)
  /\ 1 <= led.levelStep
  /\ led.levelStep <= led.levelMax - led.levelMin


\* C24: in every reachable state, the one right after construction
\* included, levelMid equals levelMin + (levelMax - levelMin) / 2 for the
\* current levelMin and levelMax
C24_LevelMidIsMidpoint ==
  led.levelMid = led.levelMin + ((led.levelMax - led.levelMin) \div 2)


LevelIsAbsolute(c) ==
  LEVEL_VALUE_ABS_MIN <= c.ledLevel /\ c.ledLevel <= LEVEL_VALUE_ABS_MAX

\* C25: in every reachable state absolute-min <= ledLevel <= absolute-max,
\* and no increment, decrement, mode request, range remap or setLevel made
\* from it takes the level outside these limits
C25_LevelStaysAbsolute ==
  /\ LevelIsAbsolute(led)
  /\ LevelIsAbsolute(stepUp(led))
  /\ LevelIsAbsolute(stepDown(led))
  /\ \A m \in cwwEnumLedMode : LevelIsAbsolute(setMode4(led, m, 0, 0, TRUE))
  /\ \A v \in ByteProbeArgs :
       /\ LevelIsAbsolute(stepUpBy(led, v))
       /\ LevelIsAbsolute(stepDownBy(led, v))
       /\ LevelIsAbsolute(setLevel(led, v))
       /\ LevelIsAbsolute(setLevelMin(led, v))
       /\ LevelIsAbsolute(setLevelMax(led, v))
       /\ \A w \in ByteProbeArgs : LevelIsAbsolute(setLevelRange(led, v, w))

C25_Witness ==
  /\ led.ledLevel % FpOne # 0
  /\ led.ledLevel > led.levelMin
  /\ led.levelMax < LEVEL_VALUE_ABS_MAX


LevelIsInRange(c) == c.levelMin <= c.ledLevel /\ c.ledLevel <= c.levelMax

\* the controllers one level increment or decrement away from c: the public
\* steps and the LED_STEP_DOWN, LED_STEP_UP, fade and LED_OSCILLATE
\* transitions of computeState
AfterOneLevelChange(c) ==
  {stepUp(c), stepDown(c)}
    \cup {stepUpBy(c, a) : a \in ByteProbeArgs}
    \cup {stepDownBy(c, a) : a \in ByteProbeArgs}
    \cup {computeState(c, m, 0, a * FpOne) :
            m \in {LED_STEP_DOWN, LED_STEP_UP, LED_FADE_DOWN, LED_FADE_UP,
                   LED_FADE_REVERSE, LED_OSCILLATE},
            a \in ByteProbeArgs}

\* C26: after any level increment or decrement (stepUp, stepDown, or a step,
\* fade or oscillate transition) made from any reachable state, the level
\* lies in [levelMin, levelMax]
C26_LevelChangeLandsInRange ==
  \A c2 \in AfterOneLevelChange(led) : LevelIsInRange(c2)


\* C27: in every reachable state after construction the active mode is
\* neither LED_TOGGLE nor LED_BLINK, and no mode request (from the caller or
\* from a sequence step), made with either PWM capability, and no periodic
\* update makes it one
C27_ActiveModeIsConcrete ==
  /\ led.ledModeActive \notin GenericModes
  /\ updateNowLed(led, player, seq).ledModeActive \notin GenericModes
  /\ \A m \in cwwEnumLedMode, pwm \in BOOLEAN :
       setMode4([led EXCEPT !.usePwm = pwm], m, 0, 0, FALSE).ledModeActive
         \notin GenericModes

C27_Witness ==
  /\ led.usePwm
  /\ hist.op = "blink"
  /\ hist.exec
  /\ led.ledModeActive \in {LED_BLINK_MAX, LED_BLINK_LEVEL}
  /\ led.updateInterval > 0


\* the fields a mode request is about
RequestState(c) ==
  <<c.ledLevel, c.ledModeActive, c.ledDirIsUp, c.updateInterval, c.remainingPhases>>

\* C28: whenever setMode skips a request because its resolved mode equals
\* ledModeSetting, executing the request would have left level, active
\* mode, direction, updateInterval and remainingPhases unchanged (no request
\* that would change them is dropped)
C28_SkippedRequestsChangeNothing ==
  \A m \in cwwEnumLedMode, phaseCount \in PhaseArgs :
    LET ledModeSpec == adjustMode(led, m)
    IN (ledModeSpec = led.ledModeSetting) =>
         /\ setMode4(led, m, phaseCount, 0, FALSE) = led
         /\ RequestState(computeState(led, ledModeSpec, phaseCount, 0)) = RequestState(led)


PeriodicModes ==
  {LED_BLINK_MAX, LED_BLINK_LEVEL, LED_FADE_UP, LED_FADE_DOWN, LED_OSCILLATE}

\* C29: in every reachable state updateInterval > 0 if and only if the
\* active mode is one of LED_BLINK_MAX, LED_BLINK_LEVEL, LED_FADE_UP,
\* LED_FADE_DOWN, LED_OSCILLATE; with the active mode LED_OFF, LED_ON,
\* LED_LOW, LED_HIGH or LED_HOLD_LEVEL, updateInterval is 0
C29_SteadinessMatchesMode ==
  /\ (led.updateInterval > 0) <=> (led.ledModeActive \in PeriodicModes)
  /\ led.ledModeActive \in {LED_OFF, LED_ON, LED_LOW, LED_HIGH, LED_HOLD_LEVEL}
       => led.updateInterval = 0


\* C30: after every public operation the most recent output write is the
\* write determined by the current ledLevel, invertSignal and usePwm: an off
\* write when the 8-bit effective level is 0, otherwise an analog write of
\* that value with PWM or a digital on write without
C30_OutputReflectsState == led.pin = PinWrite(led)


\* C31: on a PWM controller, for every 8-bit v that is 0, 255 or within
\* [levelMin, levelMax], after setLevel(v) has returned true currentLevel()
\* returns v
C31_SetLevelRoundTrip ==
  led.usePwm =>
    \A v \in ByteProbeArgs \cup LevelArgs :
      ((v \in {0, 255} \/ (v * FpOne >= led.levelMin /\ v * FpOne <= led.levelMax))
         /\ setLevelResult(led, v))
        => currentLevel(setLevel(led, v)) = v

\* C32: a sequence's attachCount always equals the number of sequence
\* players attached to it, under any interleaving of installSequence
\* (first install, re-install of the same or of a different sequence) and
\* removeSequence on several controllers; hence it never underflows and is
\* 0 again once every controller has removed or replaced the sequence
C32_AttachCountMatchesPlayers ==
  \A s \in Sequences :
    seq[s].attachCount =
      Cardinality({k \in Controllers :
                     player[k].allocated /\ player[k].attachedSequencePtr = s})

C32_Witness ==
  /\ \A k \in Controllers : player[k].allocated /\ player[k].attachedSequencePtr = 1
  /\ seq[1].attachCount = Cardinality(Controllers)
  /\ seq[2].attachCount = 0
  /\ seq[2].steps # <<>>

\* C33: whenever a player's step timer is running, its currentStepPtr
\* points to an existing step of the sequence the player is attached to:
\* it is not NULL, not a deleted step and not a step of another sequence
C33_CursorValidWhilePlaying ==
  \A k \in Controllers :
    (player[k].allocated /\ isRunning(player[k])) => cursorIsValid(player[k], seq)

====
